---- MODULE Spec2Model ----
(***************************************************************************)
(* ProxyTcpStream (seeker/src/proxy_tcp_stream.rs): one stream type over   *)
(* five transports, with a shared liveness flag, shared traffic counters   *)
(* and connection establishment through a DNS client and a backend.        *)
(*                                                                         *)
(* A ProxyTcpStream value ("owner") lives in a handle slot.  The Arc that  *)
(* holds the AtomicBool, and the Traffic that is created with it, live in  *)
(* a cell; every owner cloned from one connect shares the same cell.       *)
(*                                                                         *)
(* The dispatch loop of main (src/main.rs): the packet pump spawned once,  *)
(* then one task spawned per socket that listen() yields.                  *)
(***************************************************************************)
EXTENDS Integers, Sequences, FiniteSets, TLC

\* ------------------------------------------------------------------ bounds
MaxHandles == 2     \* ProxyTcpStream values that can exist at once
MaxBytes == 1       \* bytes transferred in one run, over all streams
MaxSockets == 2     \* sockets that listen() yields in one run

Handle == 1..MaxHandles
\* Every cell has at least one owner, so there are never more cells than handles.
Conn == 1..MaxHandles

\* ------------------------------------------------------------- value types
\* Option<T>: None is the empty tuple, Some(x) is <<x>>.
None == <<>>
Some(x) == <<x>>

\* config::Address: a hostname with a port, or a resolved socket address.
DomainName(n) == [kind |-> "DomainName", name |-> n]
SocketAddr(n) == [kind |-> "SocketAddr", name |-> n]
NoAddr == [kind |-> "NoAddr", name |-> ""]

\* Address::hostname(): Some(host) for a hostname address, None otherwise.
hostname(a) == IF a.kind = "DomainName" THEN Some(a.name) ELSE None

\* config::ServerConfig and its accessors protocol(), addr(), username(),
\* password(), method(), key().
ServerConfig(p, a, u, pw, m, k) ==
    [protocol |-> p, addr |-> a, username |-> u, password |-> pw,
     method |-> m, key |-> k]

ServerProtocol == {"Https", "Http", "Socks5", "Shadowsocks"}

\* enum ProxyTcpStreamInner
ProxyTcpStreamInner == {"Direct", "Socks5", "HttpProxy", "HttpsProxy", "Shadowsocks"}

\* std::io::Result values: Poll::Pending, Ready(Ok(n)), Ready(Err(kind)).
Pending == [tag |-> "Pending", n |-> 0, err |-> "none"]
Ok(n) == [tag |-> "Ok", n |-> n, err |-> "none"]
Err(e) == [tag |-> "Err", n |-> 0, err |-> e]
NoResult == [tag |-> "None", n |-> 0, err |-> "none"]

\* ------------------------------------------------------------ input ranges
ProxyDomain == DomainName("proxy.example:443")
ProxyIp == SocketAddr("10.0.0.1:443")
DestDomain == DomainName("dest.example:80")
DestIp == SocketAddr("192.0.2.7:80")

HttpsCfg == ServerConfig("Https", ProxyDomain, Some("user"), Some("pw"), None, None)
HttpsNoHost == ServerConfig("Https", ProxyIp, Some("user"), Some("pw"), None, None)
HttpCfg == ServerConfig("Http", ProxyIp, None, None, None, None)
HttpCfgAuth == ServerConfig("Http", ProxyIp, Some("user"), Some("pw"), None, None)
Socks5Cfg == ServerConfig("Socks5", ProxyDomain, None, None, None, None)
SsCfg == ServerConfig("Shadowsocks", ProxyDomain, None, None, Some("aes"), Some("k"))
SsNoMethod == ServerConfig("Shadowsocks", ProxyDomain, None, None, None, Some("k"))
SsNoKey == ServerConfig("Shadowsocks", ProxyDomain, None, None, Some("aes"), None)
SsNoBoth == ServerConfig("Shadowsocks", ProxyDomain, None, None, None, None)

AllConfigs == {HttpsCfg, HttpsNoHost, HttpCfg, HttpCfgAuth, Socks5Cfg,
               SsCfg, SsNoMethod, SsNoKey, SsNoBoth}
AllConfigOpts == {None} \cup {Some(c) : c \in AllConfigs}
AllRemotes == {DestDomain, DestIp}

\* DnsClient::lookup_address outcomes: Ok(socket address) or Err(kind).
DnsOk(s) == [ok |-> TRUE, sock |-> s, err |-> "none"]
DnsErr(e) == [ok |-> FALSE, sock |-> NoAddr, err |-> e]
AllDns == {DnsOk(SocketAddr("10.0.0.1:443")), DnsOk(SocketAddr("192.0.2.7:80")),
           DnsErr("NotFound")}

\* Backend connect outcomes: Ok(transport) or Err(kind).
BackendOk == [ok |-> TRUE, err |-> "none"]
BackendErr(e) == [ok |-> FALSE, err |-> e]
AllBackend == {BackendOk, BackendErr("ConnectionRefused")}

\* Outcomes of polling a transport.
TransportErrs == {"ConnectionReset"}
ReadWriteOutcomes == {Pending} \cup {Ok(n) : n \in 0..MaxBytes}
                       \cup {Err(e) : e \in TransportErrs}
UnitOutcomes == {Pending, Ok(0)} \cup {Err(e) : e \in TransportErrs}

IoOps == {"poll_read", "poll_write", "poll_flush", "poll_close"}

\* ------------------------------------------------------------------- state
VARIABLES
    streams,   \* live ProxyTcpStream values: handle -> struct fields
    alive,     \* cell -> value of the AtomicBool
    strong,    \* cell -> Arc strong count (0: cell not allocated)
    sent,      \* cell -> Traffic bytes sent
    received,  \* cell -> Traffic bytes received
    logical,   \* handle -> the connection it belongs to: the one its stream was
               \* connected as, or the one of the stream it was cloned from
    shutdowns, \* connection -> shutdown() calls made through its owners (0, 1, 2 = more)
    origin,    \* connection -> the arguments of the connect call that created it
    ended,     \* connection -> a poll of the transport, made through one of its
               \* owners, has returned an error, or a poll_close has returned Ok
    connecting, \* connect futures in flight: the slot kept for the stream ->
               \* arguments, the await it is suspended at, calls made so far
    last,      \* the most recent step if connect returned in it: arguments, what
               \* the resolver and the backend answered, calls made, result and
               \* the handle of the stream returned; NoLast otherwise
    loop,      \* main: "init" before the closure given to run() has run,
               \* "listening" while for_each takes sockets, "ended" after it
    pump,      \* main: how many times bg_send() was spawned, and its state
    tasks      \* main: the tasks spawned by for_each, in the order of accept

streamVars ==
    <<streams, alive, strong, sent, received, logical, shutdowns, origin, ended,
      connecting, last>>
mainVars == <<loop, pump, tasks>>
vars == <<streams, alive, strong, sent, received, logical, shutdowns, origin, ended,
          connecting, last, loop, pump, tasks>>

Call(fn, addr, sock, extra) == [fn |-> fn, addr |-> addr, sock |-> sock, extra |-> extra]

NoArgs == [remote |-> NoAddr, config |-> None]

NoEnv == [dns |-> DnsErr("none"), backend |-> BackendErr("none")]

Last(op, h, res, calls, args, env) ==
    [op |-> op, h |-> h, res |-> res, calls |-> calls, args |-> args, env |-> env]

NoLast == Last("none", 0, NoResult, <<>>, NoArgs, NoEnv)

Live == DOMAIN streams
Owners(c) == {h \in Live : streams[h].alive = c}
Connecting == DOMAIN connecting
\* A connect in flight keeps the slot its stream will live in.
FreeHandles == Handle \ (Live \cup Connecting)
FreeConns == {c \in Conn : strong[c] = 0}
Min(S) == CHOOSE x \in S : \A y \in S : x <= y

Init ==
    /\ streams = [h \in {} |-> NoAddr]
    /\ alive = [c \in Conn |-> TRUE]
    /\ strong = [c \in Conn |-> 0]
    /\ sent = [c \in Conn |-> 0]
    /\ received = [c \in Conn |-> 0]
    /\ logical = [h \in {} |-> 0]
    /\ shutdowns = [c \in Conn |-> 0]
    /\ origin = [c \in Conn |-> NoArgs]
    /\ ended = [c \in Conn |-> FALSE]
    /\ connecting = [h \in {} |-> NoAddr]
    /\ last = NoLast
    /\ loop = "init"
    /\ pump = [spawned |-> 0, state |-> "none"]
    /\ tasks = <<>>

\* ------------------------------------------------------------------ connect
LookupCall(a) == Call("DnsClient::lookup_address", a, NoAddr, <<>>)

\* The `?` after an awaited call, and the early `return Err(..)`: the calls made
\* so far and the error; no stream.
Failed(calls, e) == [calls |-> calls, res |-> Err(e), inner |-> "none"]

\* (mutant: a failed backend connect is tried a second time)
WrappedRetry(calls, call, variant, backend) ==
    IF backend.ok
    THEN [calls |-> Append(calls, call), res |-> Ok(0), inner |-> variant]
    ELSE Failed(Append(Append(calls, call), call), backend.err)

\* A backend connect awaited with `?`, its transport wrapped in `variant`.
Wrapped(calls, call, variant, backend) ==
    IF backend.ok
    THEN [calls |-> Append(calls, call), res |-> Ok(0), inner |-> variant]
    ELSE Failed(Append(calls, call), backend.err)

HttpsBranch(remote_addr, config, dns, backend) ==
    LET lookup == <<LookupCall(config.addr)>>
        proxy_hostname == hostname(config.addr)
    IN  IF ~dns.ok THEN Failed(lookup, dns.err)
        ELSE IF proxy_hostname = None THEN Failed(lookup, "InvalidData")
        ELSE Wrapped(lookup,
                     Call("HttpsProxyTcpStream::connect", remote_addr, dns.sock,
                          <<proxy_hostname, config.username, config.password>>),
                     "HttpsProxy", backend)

\* (mutant: the Http arm connects and wraps as the Https arm does)
HttpBranchAsHttps(remote_addr, config, dns, backend) ==
    LET lookup == <<LookupCall(config.addr)>>
    IN  IF ~dns.ok THEN Failed(lookup, dns.err)
        ELSE Wrapped(lookup,
                     Call("HttpsProxyTcpStream::connect", remote_addr, dns.sock,
                          <<config.username, config.password>>),
                     "HttpsProxy", backend)

HttpBranch(remote_addr, config, dns, backend) ==
    LET lookup == <<LookupCall(config.addr)>>
    IN  IF ~dns.ok THEN Failed(lookup, dns.err)
        ELSE Wrapped(lookup,
                     Call("HttpProxyTcpStream::connect", remote_addr, dns.sock,
                          <<config.username, config.password>>),
                     "HttpProxy", backend)

\* (mutant: the Socks5 arm resolves the destination, not the backend)
Socks5BranchResolvesRemote(remote_addr, config, dns, backend) ==
    LET lookup == <<LookupCall(remote_addr)>>
    IN  IF ~dns.ok THEN Failed(lookup, dns.err)
        ELSE Wrapped(lookup,
                     Call("Socks5TcpStream::connect", remote_addr, dns.sock, <<>>),
                     "Socks5", backend)

Socks5Branch(remote_addr, config, dns, backend) ==
    LET lookup == <<LookupCall(config.addr)>>
    IN  IF ~dns.ok THEN Failed(lookup, dns.err)
        ELSE Wrapped(lookup,
                     Call("Socks5TcpStream::connect", remote_addr, dns.sock, <<>>),
                     "Socks5", backend)

\* (mutant: the Shadowsocks arm goes on without checking method and key)
ShadowsocksBranchUnchecked(remote_addr, config, dns, backend) ==
    LET lookup == <<LookupCall(config.addr)>>
    IN  IF ~dns.ok THEN Failed(lookup, dns.err)
        ELSE Wrapped(lookup,
                     Call("SSTcpStream::connect", remote_addr, dns.sock,
                          <<config.method, config.key>>),
                     "Shadowsocks", backend)

ShadowsocksBranch(remote_addr, config, dns, backend) ==
    LET lookup == <<LookupCall(config.addr)>>
    IN  IF ~dns.ok THEN Failed(lookup, dns.err)
        ELSE IF config.method = None \/ config.key = None
             THEN Failed(lookup, "InvalidData")
        ELSE Wrapped(lookup,
                     Call("SSTcpStream::connect", remote_addr, dns.sock,
                          <<config.method, config.key>>),
                     "Shadowsocks", backend)

DirectBranch(remote_addr, dns, backend) ==
    LET lookup == <<LookupCall(remote_addr)>>
    IN  IF ~dns.ok THEN Failed(lookup, dns.err)
        ELSE Wrapped(lookup, Call("TcpStream::connect", NoAddr, dns.sock, <<>>),
                     "Direct", backend)

\* The body of connect up to the construction of the struct: which calls are
\* made, in order, and what comes out.  `dns` is what lookup_address returns
\* if it is called, `backend` what the backend connect returns if it is called.
ConnectRun(remote_addr, config, dns, backend) ==
    IF config # None
    THEN LET c == config[1]
         IN  CASE c.protocol = "Https" -> HttpsBranch(remote_addr, c, dns, backend)
               [] c.protocol = "Http" -> HttpBranch(remote_addr, c, dns, backend)
               [] c.protocol = "Socks5" -> Socks5Branch(remote_addr, c, dns, backend)
               [] c.protocol = "Shadowsocks" ->
                      ShadowsocksBranch(remote_addr, c, dns, backend)
    ELSE DirectBranch(remote_addr, dns, backend)

\* (mutant: with a config, the address kept is the backend's)
NewStreamBackendAddr(inner, remote_addr, config, c) ==
    [inner |-> inner, alive |-> c,
     remote_addr |-> IF config = None THEN remote_addr ELSE config[1].addr,
     config |-> config, traffic |-> c]

\* Ok(ProxyTcpStream { inner, alive: Arc::new(..), remote_addr, config, traffic })
\* with the Arc and the Traffic allocated in cell c.
NewStream(inner, remote_addr, config, c) ==
    [inner |-> inner, alive |-> c, remote_addr |-> remote_addr,
     config |-> config, traffic |-> c]

\* (mutant: the flag built by Default, which is false)
NewAliveDefault == FALSE

\* AtomicBool::new(true)
NewAlive == TRUE

\* The state of the future of connect, suspended at an await: "lookup" at
\* lookup_address(..).await, "backend" at the backend's connect(..).await.
ConnectFuture(remote_addr, config, pc, dns, calls) ==
    [remote |-> remote_addr, config |-> config, pc |-> pc, dns |-> dns, calls |-> calls]

\* The first poll of connect(remote_addr, config, dns_client): the body runs
\* up to the await of lookup_address, which has been called and is pending.
\* (The calls made before an answer do not depend on the answer.)
ConnectStart(remote_addr, config) ==
    /\ FreeHandles # {}
    /\ LET h == Min(FreeHandles)
           run == ConnectRun(remote_addr, config, NoEnv.dns, NoEnv.backend)
       IN  connecting' = [x \in Connecting \cup {h} |->
                            IF x = h
                            THEN ConnectFuture(remote_addr, config, "lookup",
                                               NoEnv.dns, run.calls)
                            ELSE connecting[x]]
    /\ last' = NoLast
    /\ UNCHANGED <<streams, alive, strong, sent, received, logical, shutdowns,
                   origin, ended>>

\* connect returns `run.res` from the future in slot h: on Ok the struct is
\* built (lines 107-113) in slot h with a new cell; on Err there is no stream.
Returned(h, run, env) ==
    LET f == connecting[h]
        args == [remote |-> f.remote, config |-> f.config]
    IN  /\ connecting' = [x \in Connecting \ {h} |-> connecting[x]]
        /\ IF run.res.tag = "Ok"
           THEN LET c == Min(FreeConns)
                IN  /\ streams' = [x \in Live \cup {h} |->
                                     IF x = h
                                     THEN NewStream(run.inner, f.remote, f.config, c)
                                     ELSE streams[x]]
                    /\ alive' = [alive EXCEPT ![c] = NewAlive]
                    /\ strong' = [strong EXCEPT ![c] = 1]
                    /\ sent' = [sent EXCEPT ![c] = 0]
                    /\ received' = [received EXCEPT ![c] = 0]
                    /\ logical' = [x \in Live \cup {h} |-> IF x = h THEN c ELSE logical[x]]
                    /\ shutdowns' = [shutdowns EXCEPT ![c] = 0]
                    /\ origin' = [origin EXCEPT ![c] = args]
                    /\ ended' = [ended EXCEPT ![c] = FALSE]
                    /\ last' = Last("connect", h, Ok(0), run.calls, args, env)
           ELSE /\ last' = Last("connect", 0, run.res, run.calls, args, env)
                /\ UNCHANGED <<streams, alive, strong, sent, received, logical,
                               shutdowns, origin, ended>>

\* lookup_address answers `dns` and connect is polled again: `?` returns the
\* error; otherwise the arm goes on, to its early return or to the await of
\* its backend connect, which has been called and is pending.
ConnectResolved(h, dns) ==
    /\ h \in Connecting
    /\ connecting[h].pc = "lookup"
    /\ LET f == connecting[h]
           run == ConnectRun(f.remote, f.config, dns, NoEnv.backend)
       IN  IF Len(run.calls) = Len(f.calls)
           THEN Returned(h, run, [dns |-> dns, backend |-> NoEnv.backend])
           ELSE /\ connecting' = [connecting EXCEPT ![h] =
                                     ConnectFuture(f.remote, f.config, "backend",
                                                   dns, run.calls)]
                /\ last' = NoLast
                /\ UNCHANGED <<streams, alive, strong, sent, received, logical,
                               shutdowns, origin, ended>>

\* The backend connect answers `backend` and connect is polled again: it returns.
ConnectFinished(h, backend) ==
    /\ h \in Connecting
    /\ connecting[h].pc = "backend"
    /\ LET f == connecting[h]
       IN  Returned(h, ConnectRun(f.remote, f.config, f.dns, backend),
                    [dns |-> f.dns, backend |-> backend])

\* The future of connect is dropped at an await: nothing was built.
ConnectDropped(h) ==
    /\ h \in Connecting
    /\ connecting' = [x \in Connecting \ {h} |-> connecting[x]]
    /\ last' = NoLast
    /\ UNCHANGED <<streams, alive, strong, sent, received, logical, shutdowns,
                   origin, ended>>

\* ------------------------------------------------------- ProxyConnection
\* traffic(): a handle on the stream's counters.
traffic(h) == [sent |-> sent[streams[h].traffic],
               received |-> received[streams[h].traffic]]

\* config(): self.config.as_ref()
config(h) == streams[h].config

\* (mutant: configs compared by protocol only)
has_config_by_protocol(h, c) ==
    IF streams[h].config = None \/ c = None
    THEN streams[h].config = c
    ELSE streams[h].config[1].protocol = c[1].protocol

\* has_config(c): self.config.as_ref() == c
has_config(h, c) == streams[h].config = c

\* (mutant: Arc::weak_count in place of Arc::strong_count)
weak_count(h) == 0

\* strong_count(): Arc::strong_count(&self.alive)
strong_count(h) == strong[streams[h].alive]

\* remote_addr(): Some(&self.remote_addr)
remote_addr(h) == Some(streams[h].remote_addr)

\* (mutant: the flag flipped instead of cleared)
StoreToggle(c) == [alive EXCEPT ![c] = ~@]

\* self.alive.store(false, SeqCst)
StoreDead(c) == [alive EXCEPT ![c] = FALSE]

Shutdown(h) ==
    /\ h \in Live
    /\ alive' = StoreDead(streams[h].alive)
    /\ shutdowns' = [shutdowns EXCEPT ![logical[h]] = IF @ = 0 THEN 1 ELSE 2]
    /\ last' = NoLast
    /\ UNCHANGED <<streams, strong, sent, received, logical, origin, ended,
                   connecting>>

\* (mutant: a hand-written Clone that gives the copy a flag of its own)
CloneOwnFlag(s) == [inner |-> s.inner, alive |-> Min(FreeConns),
                    remote_addr |-> s.remote_addr, config |-> s.config,
                    traffic |-> s.traffic]

\* #[derive(Clone)]: every field is cloned; cloning the Arc adds an owner of
\* the same cell, and the Traffic clone is a handle on the same counters.
CloneOf(s) == [inner |-> s.inner, alive |-> s.alive, remote_addr |-> s.remote_addr,
               config |-> s.config, traffic |-> s.traffic]

Clone(h) ==
    /\ h \in Live
    /\ FreeHandles # {}
    /\ LET h2 == Min(FreeHandles)
           s2 == CloneOf(streams[h])
       IN  /\ streams' = [x \in Live \cup {h2} |-> IF x = h2 THEN s2 ELSE streams[x]]
           /\ strong' = [strong EXCEPT ![s2.alive] = @ + 1]
           /\ logical' = [x \in Live \cup {h2} |-> IF x = h2 THEN logical[h] ELSE logical[x]]
    /\ last' = NoLast
    /\ UNCHANGED <<alive, sent, received, shutdowns, origin, ended, connecting>>

\* Dropping a ProxyTcpStream drops its Arc; the last drop frees the cell.
Drop(h) ==
    /\ h \in Live
    /\ LET c == streams[h].alive
           freed == strong[c] = 1
       IN  /\ streams' = [x \in Live \ {h} |-> streams[x]]
           /\ strong' = [strong EXCEPT ![c] = @ - 1]
           /\ alive' = IF freed THEN [alive EXCEPT ![c] = TRUE] ELSE alive
           /\ sent' = IF freed THEN [sent EXCEPT ![c] = 0] ELSE sent
           /\ received' = IF freed THEN [received EXCEPT ![c] = 0] ELSE received
    /\ LET k == logical[h]
           gone == \A x \in Live \ {h} : logical[x] # k
       IN  /\ logical' = [x \in Live \ {h} |-> logical[x]]
           /\ shutdowns' = IF gone THEN [shutdowns EXCEPT ![k] = 0] ELSE shutdowns
           /\ origin' = IF gone THEN [origin EXCEPT ![k] = NoArgs] ELSE origin
           /\ ended' = IF gone THEN [ended EXCEPT ![k] = FALSE] ELSE ended
    /\ UNCHANGED connecting
    /\ last' = NoLast

\* --------------------------------------------------------------- Read/Write
BrokenPipe == Err("BrokenPipe")

\* stream.alive.load(SeqCst)
IsAlive(h) == alive[streams[h].alive]

\* match &mut stream.inner { Variant(conn) => Pin::new(conn).poll_x(cx, ..) }:
\* the one transport the stream owns is polled and its outcome is the value
\* of the match.
Dispatch(inner, out) ==
    CASE inner = "Direct" -> out
      [] inner = "Socks5" -> out
      [] inner = "Shadowsocks" -> out
      [] inner = "HttpProxy" -> out
      [] inner = "HttpsProxy" -> out

\* Traffic::recv(size), Traffic::send(size)
Recv(t, size) == [received EXCEPT ![t] = @ + size]
Send(t, size) == [sent EXCEPT ![t] = @ + size]

\* What one call of a poll function does: the value it returns, how many times
\* it polls the transport, and the counters it leaves.
Outcome(res, polls, s, r) == [res |-> res, polls |-> polls, sent |-> s, received |-> r]

\* (mutant: poll_read accounts with traffic.send)
poll_read_as_send(h, out) ==
    IF ~IsAlive(h)
    THEN Outcome(BrokenPipe, 0, sent, received)
    ELSE LET size == Dispatch(streams[h].inner, out)
         IN  IF size.tag = "Ok"
             THEN Outcome(Ok(size.n), 1, Send(streams[h].traffic, size.n), received)
             ELSE Outcome(size, 1, sent, received)

\* poll_read on handle h when the transport, if polled, answers `out`.
poll_read(h, out) ==
    IF ~IsAlive(h)
    THEN Outcome(BrokenPipe, 0, sent, received)
    ELSE LET size == Dispatch(streams[h].inner, out)
         IN  IF size.tag = "Ok"
             THEN Outcome(Ok(size.n), 1, sent, Recv(streams[h].traffic, size.n))
             ELSE Outcome(size, 1, sent, received)

\* (mutant: poll_write accounts before the transport has completed the write)
poll_write_eager(h, out) ==
    IF ~IsAlive(h)
    THEN Outcome(BrokenPipe, 0, sent, received)
    ELSE LET size == Dispatch(streams[h].inner, out)
         IN  IF size.tag = "Ok"
             THEN Outcome(Ok(size.n), 1, Send(streams[h].traffic, size.n), received)
             ELSE Outcome(size, 1, Send(streams[h].traffic, 1), received)

poll_write(h, out) ==
    IF ~IsAlive(h)
    THEN Outcome(BrokenPipe, 0, sent, received)
    ELSE LET size == Dispatch(streams[h].inner, out)
         IN  IF size.tag = "Ok"
             THEN Outcome(Ok(size.n), 1, Send(streams[h].traffic, size.n), received)
             ELSE Outcome(size, 1, sent, received)

\* (mutant: a flush that fails is reported as done)
poll_flush_lenient(h, out) ==
    IF ~IsAlive(h)
    THEN Outcome(BrokenPipe, 0, sent, received)
    ELSE Outcome(IF Dispatch(streams[h].inner, out).tag = "Err"
                 THEN Ok(0)
                 ELSE Dispatch(streams[h].inner, out), 1, sent, received)

poll_flush(h, out) ==
    IF ~IsAlive(h)
    THEN Outcome(BrokenPipe, 0, sent, received)
    ELSE Outcome(Dispatch(streams[h].inner, out), 1, sent, received)

\* (mutant: poll_close without the liveness guard)
poll_close_unguarded(h, out) ==
    Outcome(Dispatch(streams[h].inner, out), 1, sent, received)

poll_close(h, out) ==
    IF ~IsAlive(h)
    THEN Outcome(BrokenPipe, 0, sent, received)
    ELSE Outcome(Dispatch(streams[h].inner, out), 1, sent, received)

RECURSIVE Sum(_, _)
Sum(f, n) == IF n = 0 THEN 0 ELSE f[n] + Sum(f, n - 1)

\* Bytes counted so far, over all streams.
Total(s, r) == Sum(s, MaxHandles) + Sum(r, MaxHandles)

\* A call of a poll function: the counters become what the call leaves.
Applied(run) ==
    /\ Total(run.sent, run.received) <= MaxBytes
    /\ sent' = run.sent
    /\ received' = run.received
    /\ last' = NoLast
    /\ UNCHANGED <<streams, alive, strong, logical, shutdowns, origin, connecting>>

\* What the call leaves to be remembered of the transport: that a poll of it
\* has failed, or that it was closed.
Noted(h, run, closing) ==
    ended' = IF run.polls = 1 /\ (run.res.tag = "Err" \/ (closing /\ run.res.tag = "Ok"))
             THEN [ended EXCEPT ![logical[h]] = TRUE]
             ELSE ended

PollRead(h, out) ==
    h \in Live /\ Applied(poll_read(h, out)) /\ Noted(h, poll_read(h, out), FALSE)
PollWrite(h, out) ==
    h \in Live /\ Applied(poll_write(h, out)) /\ Noted(h, poll_write(h, out), FALSE)
PollFlush(h, out) ==
    h \in Live /\ Applied(poll_flush(h, out)) /\ Noted(h, poll_flush(h, out), FALSE)
\* (mutant: a close that succeeds marks the stream dead)
PollCloseKills(h, out) ==
    /\ h \in Live
    /\ Total(poll_close(h, out).sent, poll_close(h, out).received) <= MaxBytes
    /\ sent' = poll_close(h, out).sent
    /\ received' = poll_close(h, out).received
    /\ alive' = IF poll_close(h, out).polls = 1 /\ poll_close(h, out).res.tag = "Ok"
                THEN [alive EXCEPT ![streams[h].alive] = FALSE]
                ELSE alive
    /\ last' = NoLast
    /\ UNCHANGED <<streams, strong, logical, shutdowns, origin, connecting>>
    /\ Noted(h, poll_close(h, out), TRUE)

PollClose(h, out) ==
    h \in Live /\ Applied(poll_close(h, out)) /\ Noted(h, poll_close(h, out), TRUE)

\* ------------------------------------------------------- main: dispatch
\* What listen() yields: a TunSocket::Tcp or a TunSocket::Udp.
TunSocket == {"Tcp", "Udp"}

\* What a datagram brings: its size and the address it came from.
DgramSizes == {0, 1}
DgramAddrs == {"10.9.0.2:5353", "10.9.0.3:4000"}
DgramOk(size, addr) == [ok |-> TRUE, size |-> size, addr |-> addr, err |-> "none"]
DgramErr(e) == [ok |-> FALSE, size |-> 0, addr |-> "none", err |-> e]
RecvOutcomes ==
    {DgramOk(n, a) : n \in DgramSizes, a \in DgramAddrs} \cup {DgramErr("ConnectionReset")}

\* What a read of the socket's read half gives to copy: end of stream, bytes,
\* or an error; what a write or a flush of a half gives.
CopyReadOutcomes == {Ok(0), Ok(1), Err("ConnectionReset")}
HalfOutcomes == {Ok(0), Err("ConnectionReset")}

Tasks == DOMAIN tasks

\* spawn(lazy(move || ..)): a task that owns the socket and has not run yet.
NewTask(kind) ==
    [kind |-> kind, pc |-> "spawned", held |-> 0, from |-> "none", to |-> "none",
     calls |-> <<>>]

\* run(lazy(|| { spawn(bg_send()..); listen().for_each(..) })): the closure
\* spawns the pump, then hands the accept loop to the runtime.
Start ==
    /\ loop = "init"
    /\ pump' = [spawned |-> pump.spawned + 1, state |-> "running"]
    /\ loop' = "listening"
    /\ UNCHANGED tasks
    /\ UNCHANGED streamVars

\* (mutant: the pump is spawned in the closure of for_each, once per socket)
AcceptSpawnsPump(kind) ==
    /\ loop = "listening"
    /\ Len(tasks) < MaxSockets
    /\ tasks' = Append(tasks, NewTask(kind))
    /\ pump' = [spawned |-> pump.spawned + 1, state |-> "running"]
    /\ UNCHANGED loop
    /\ UNCHANGED streamVars

\* for_each(|socket| { spawn(lazy(..)); Ok(()) }): one more socket, one more task.
Accept(kind) ==
    /\ loop = "listening"
    /\ Len(tasks) < MaxSockets
    /\ tasks' = Append(tasks, NewTask(kind))
    /\ UNCHANGED <<loop, pump>>
    /\ UNCHANGED streamVars

\* The stream of listen() ends, or yields an error that map_err drops:
\* for_each is over, the tasks spawned so far go on.
ListenEnd ==
    /\ loop = "listening"
    /\ loop' = "ended"
    /\ UNCHANGED <<pump, tasks>>
    /\ UNCHANGED streamVars

\* bg_send(): the pump is polled; it has packets to write or it has none, and
\* in both cases it stays a running task.
PumpPoll ==
    /\ pump.state = "running"
    /\ UNCHANGED mainVars
    /\ UNCHANGED streamVars

\* (mutant: the error of a task ends the accept loop, as it would if the
\* relay future were returned to for_each instead of spawned)
EndedPropagates(t, res) ==
    [tasks |-> [tasks EXCEPT ![t].pc = IF res.tag = "Ok" THEN "done" ELSE "failed"],
     loop |-> IF res.tag = "Ok" THEN loop ELSE "ended",
     pump |-> pump]

\* .map(|_| ()).map_err(|_| ()): the future of task t completes with res; the
\* value or the error is dropped and the task is over.
Ended(t, res) ==
    [tasks |-> [tasks EXCEPT ![t].pc = IF res.tag = "Ok" THEN "done" ELSE "failed"],
     loop |-> loop,
     pump |-> pump]

Finish(t, res) ==
    /\ tasks' = Ended(t, res).tasks
    /\ loop' = Ended(t, res).loop
    /\ pump' = Ended(t, res).pump
    /\ UNCHANGED streamVars

Step(t, task) ==
    /\ tasks' = [tasks EXCEPT ![t] = task]
    /\ UNCHANGED <<loop, pump>>
    /\ UNCHANGED streamVars

\* The lazy closure runs.  Tcp: socket.split(), then copy(reader, writer), from
\* the socket's read half to the same socket's write half.  Udp: recv_dgram.
TaskStart(t) ==
    /\ t \in Tasks
    /\ tasks[t].pc = "spawned"
    /\ IF tasks[t].kind = "Tcp"
       THEN Step(t, [tasks[t] EXCEPT !.pc = "read", !.from = "socket.reader",
                                     !.to = "socket.writer"])
       ELSE Step(t, [tasks[t] EXCEPT !.pc = "recv"])

\* copy: a read of the reader.  Zero bytes is the end of the stream, after
\* which copy flushes the writer; an error ends copy.
CopyRead(t, out) ==
    /\ t \in Tasks
    /\ tasks[t].pc = "read"
    /\ CASE out.tag = "Err" -> Finish(t, out)
         [] out.tag = "Ok" /\ out.n = 0 -> Step(t, [tasks[t] EXCEPT !.pc = "flush"])
         [] OTHER -> Step(t, [tasks[t] EXCEPT !.pc = "write", !.held = out.n])

\* copy: the bytes held are written to the writer.
CopyWrite(t, out) ==
    /\ t \in Tasks
    /\ tasks[t].pc = "write"
    /\ IF out.tag = "Err"
       THEN Finish(t, out)
       ELSE Step(t, [tasks[t] EXCEPT !.pc = "read", !.held = 0])

\* copy: the flush after the end of the stream; copy is done.
CopyFlush(t, out) ==
    /\ t \in Tasks
    /\ tasks[t].pc = "flush"
    /\ Finish(t, out)

\* socket.recv_dgram(buf): and_then runs the closure on Ok only; buf.truncate(size).
RecvDgram(t, dgram) ==
    /\ t \in Tasks
    /\ tasks[t].pc = "recv"
    /\ LET call == [fn |-> "recv_dgram", size |-> dgram.size, addr |-> dgram.addr,
                    ok |-> dgram.ok]
           logged == [tasks[t] EXCEPT !.calls = Append(@, call)]
       IN  IF dgram.ok
           THEN Step(t, [logged EXCEPT !.pc = "send", !.held = dgram.size,
                                       !.from = dgram.addr])
           ELSE /\ tasks' = [Ended(t, Err(dgram.err)).tasks EXCEPT ![t].calls = logged.calls]
                /\ loop' = Ended(t, Err(dgram.err)).loop
                /\ pump' = Ended(t, Err(dgram.err)).pump
                /\ UNCHANGED streamVars

\* socket.send_dgram(buf, addr): the bytes received, to the address they came from.
SendDgram(t, out) ==
    /\ t \in Tasks
    /\ tasks[t].pc = "send"
    /\ LET call == [fn |-> "send_dgram", size |-> tasks[t].held, addr |-> tasks[t].from,
                    ok |-> out.tag = "Ok"]
           e == Ended(t, out)
       IN  /\ tasks' = [e.tasks EXCEPT ![t].calls = Append(@, call), ![t].to = call.addr]
           /\ loop' = e.loop
           /\ pump' = e.pump
           /\ UNCHANGED streamVars

\* ----------------------------------------------------------- specifications
ConnectAny ==
    \E r \in AllRemotes, c \in AllConfigOpts :
        ConnectStart(r, c) /\ UNCHANGED mainVars

ResolvedAny ==
    \E h \in Handle, d \in AllDns : ConnectResolved(h, d) /\ UNCHANGED mainVars
FinishedAny ==
    \E h \in Handle, b \in AllBackend : ConnectFinished(h, b) /\ UNCHANGED mainVars
DroppedAny == \E h \in Handle : ConnectDropped(h) /\ UNCHANGED mainVars

ShutdownAny == \E h \in Handle : Shutdown(h) /\ UNCHANGED mainVars
CloneAny == \E h \in Handle : Clone(h) /\ UNCHANGED mainVars
DropAny == \E h \in Handle : Drop(h) /\ UNCHANGED mainVars
ReadAny ==
    \E h \in Handle, out \in ReadWriteOutcomes : PollRead(h, out) /\ UNCHANGED mainVars
WriteAny ==
    \E h \in Handle, out \in ReadWriteOutcomes : PollWrite(h, out) /\ UNCHANGED mainVars
FlushAny ==
    \E h \in Handle, out \in UnitOutcomes : PollFlush(h, out) /\ UNCHANGED mainVars
CloseAny ==
    \E h \in Handle, out \in UnitOutcomes : PollClose(h, out) /\ UNCHANGED mainVars

\* Several connections side by side, each through its whole life: connect
\* with any configuration and destination, next to live streams and to other
\* suspended connects (other calls fall between its awaits, and it may fail
\* or be dropped), clone, I/O, shutdown, drop.
Next ==
    \/ ConnectAny
    \/ ResolvedAny
    \/ FinishedAny
    \/ DroppedAny
    \/ ShutdownAny
    \/ CloneAny
    \/ DropAny
    \/ ReadAny
    \/ WriteAny
    \/ FlushAny
    \/ CloseAny

Spec == Init /\ [][Next]_vars

\* The process of main: the pump, the accept loop and the tasks it spawns.
AcceptAny == \E kind \in TunSocket : Accept(kind)
TaskStartAny == \E t \in 1..MaxSockets : TaskStart(t)
CopyReadAny == \E t \in 1..MaxSockets, out \in CopyReadOutcomes : CopyRead(t, out)
CopyWriteAny == \E t \in 1..MaxSockets, out \in HalfOutcomes : CopyWrite(t, out)
CopyFlushAny == \E t \in 1..MaxSockets, out \in HalfOutcomes : CopyFlush(t, out)
RecvDgramAny == \E t \in 1..MaxSockets, dgram \in RecvOutcomes : RecvDgram(t, dgram)
SendDgramAny == \E t \in 1..MaxSockets, out \in HalfOutcomes : SendDgram(t, out)

NextMain ==
    \/ Start
    \/ AcceptAny
    \/ ListenEnd
    \/ PumpPoll
    \/ TaskStartAny
    \/ CopyReadAny
    \/ CopyWriteAny
    \/ CopyFlushAny
    \/ RecvDgramAny
    \/ SendDgramAny

SpecMain == Init /\ [][NextMain]_vars

\* ------------------------------------------------------------------ claims
Cell(h) == streams[h].alive
WasShut(h) == shutdowns[logical[h]] > 0
Rejected(run) == run.res = BrokenPipe /\ run.polls = 0

\* Every poll function, called through h, is rejected by the liveness guard
\* whatever the transport would have answered.
AllRejected(h) ==
    /\ \A out \in ReadWriteOutcomes :
          Rejected(poll_read(h, out)) /\ Rejected(poll_write(h, out))
    /\ \A out \in UnitOutcomes :
          Rejected(poll_flush(h, out)) /\ Rejected(poll_close(h, out))

\* C1: once shutdown() has been called on a stream, of whichever transport
\* variant, every later poll_read, poll_write, poll_flush and poll_close on it
\* returns Ready(Err(BrokenPipe)) without polling the transport.
C1_AfterShutdownBrokenPipe ==
    \A h \in Live : WasShut(h) => AllRejected(h)

\* A stream over a Shadowsocks transport has been shut down and rejects a read
\* the transport would have completed.
C1_Witness ==
    \E h \in Live :
        /\ streams[h].inner = "Shadowsocks"
        /\ WasShut(h)
        /\ poll_read(h, Ok(MaxBytes)).res = BrokenPipe

\* An Https config whose backend address has no hostname, a Shadowsocks config
\* without method or without key.
InvalidConfig(cfg) ==
    /\ cfg # None
    /\ \/ cfg[1].protocol = "Https" /\ hostname(cfg[1].addr) = None
       \/ cfg[1].protocol = "Shadowsocks"
            /\ (cfg[1].method = None \/ cfg[1].key = None)

\* C2: connect with such a config fails with InvalidData before any network
\* I/O: neither lookup_address nor a backend connect is called, so the result
\* is InvalidData whatever the DNS client would have returned.
C2_ConfigErrorBeforeIo ==
    (last.op = "connect" /\ InvalidConfig(last.args.config))
        => (last.res = Err("InvalidData") /\ last.calls = <<>>)

\* C3: a poll_read that completes with Ready(Ok(n)) adds exactly n to the
\* received counter of the stream's Traffic and leaves every other counter as
\* it was; a poll_write that completes with Ready(Ok(n)) does the same for the
\* sent counter; for every transport variant and for n = 0.
C3_TransferCountedOnce ==
    [][\A h \in Handle, out \in ReadWriteOutcomes :
          /\ (PollRead(h, out) /\ poll_read(h, out).res.tag = "Ok")
                => /\ received' = [received EXCEPT
                                     ![streams[h].traffic] = @ + poll_read(h, out).res.n]
                   /\ sent' = sent
          /\ (PollWrite(h, out) /\ poll_write(h, out).res.tag = "Ok")
                => /\ sent' = [sent EXCEPT
                                 ![streams[h].traffic] = @ + poll_write(h, out).res.n]
                   /\ received' = received]_vars

\* A stream over an HTTP proxy has received bytes and sent none.
C3_Witness ==
    \E h \in Live :
        /\ streams[h].inner = "HttpProxy"
        /\ traffic(h).received = MaxBytes
        /\ traffic(h).sent = 0

\* A call that does not complete a transfer leaves both counters as they
\* were: a poll that returns Pending or an error or is rejected, a flush, a
\* close; and a read leaves the sent counter, a write the received counter.
Untouched(run) == run.sent = sent /\ run.received = received

PollsKeepCounters ==
    \A h \in Live :
        /\ \A out \in ReadWriteOutcomes :
              /\ poll_read(h, out).res.tag # "Ok" => Untouched(poll_read(h, out))
              /\ poll_write(h, out).res.tag # "Ok" => Untouched(poll_write(h, out))
              /\ poll_read(h, out).sent = sent
              /\ poll_write(h, out).received = received
        /\ \A out \in UnitOutcomes :
              Untouched(poll_flush(h, out)) /\ Untouched(poll_close(h, out))

\* C4: the counters of a connection change only in a read or write that
\* completes with Ready(Ok(n)) on an alive stream: flush, close, shutdown,
\* clone, a Pending poll, a transport error and a rejected poll leave both as
\* they were, and no counter is ever lower than it was before.
C4_CountersOnlyGrowByTransfers ==
    /\ []PollsKeepCounters
    /\ [][\A c \in Conn :
            (strong[c] > 0 /\ strong'[c] > 0)
               => /\ sent'[c] >= sent[c]
                  /\ received'[c] >= received[c]
                  /\ (sent'[c] # sent[c] \/ received'[c] # received[c])
                        => \E h \in Owners(c), n \in 1..MaxBytes :
                              /\ alive[c]
                              /\ PollRead(h, Ok(n)) \/ PollWrite(h, Ok(n))]_vars

\* A connection that counted sent bytes was shut down afterwards and still
\* shows them.
C4_Witness ==
    \E h \in Live : WasShut(h) /\ ~IsAlive(h) /\ traffic(h).sent > 0

\* C5: the liveness flag is true when the stream is created, and once it is
\* false it stays false for as long as the stream exists, whatever is called.
C5_AliveOneWay ==
    [][\A c \in Conn :
          /\ (strong[c] = 0 /\ strong'[c] > 0) => alive'[c]
          /\ (strong[c] > 0 /\ strong'[c] > 0 /\ ~alive[c]) => ~alive'[c]]_vars

\* A dead connection with two owners that was shut down more than once.
C5_Witness ==
    \E c \in Conn : strong[c] = MaxHandles /\ ~alive[c] /\ shutdowns[c] > 1

\* C6: a shutdown() on a stream that has been shut down before changes
\* nothing of it: flag, counters, struct fields and strong count stay as the
\* first call left them, so every later call behaves as after one shutdown.
C6_ShutdownIdempotent ==
    [][\A h \in Handle :
          (Shutdown(h) /\ WasShut(h))
             => UNCHANGED <<streams, alive, strong, sent, received>>]_vars

\* shutdown() has been called twice on a stream that counted received bytes.
C6_Witness ==
    \E h \in Live : shutdowns[logical[h]] > 1 /\ traffic(h).received > 0

\* C7: the flag is shared by all owners of one connection and by nobody else:
\* a stream is dead exactly when shutdown() was called through an owner of its
\* own connection, and then every poll through every owner is rejected,
\* whether or not an earlier poll of that operation returned Pending.
C7_FlagSharedByOwners ==
    \A h \in Live :
        /\ IsAlive(h) = ~WasShut(h)
        /\ WasShut(h) => AllRejected(h)
        /\ ~WasShut(h) => \A out \in UnitOutcomes : poll_flush(h, out).polls = 1

\* One shutdown() call on a connection with two owners: both are rejected, so
\* the owner the call was not made through is.
C7_Witness ==
    \E h1 \in Live, h2 \in Live :
        /\ h1 # h2
        /\ logical[h1] = logical[h2]
        /\ shutdowns[logical[h1]] = 1
        /\ AllRejected(h1) /\ AllRejected(h2)

\* Two separately connected streams, one shut down and dead, the other alive.
C7_WitnessSeparate ==
    \E h1 \in Live, h2 \in Live :
        logical[h1] # logical[h2] /\ ~IsAlive(h1) /\ IsAlive(h2)

\* C8: strong_count() is the number of live owners of the stream's liveness
\* flag: 1 right after connect, one more per clone, one less per drop, and
\* untouched by shutdown and I/O.
C8_StrongCountIsOwners ==
    /\ \A h \in Live : strong_count(h) = Cardinality(Owners(Cell(h)))
    /\ \A h \in Live : strong_count(h) = Cardinality({x \in Live : logical[x] = logical[h]})
    /\ (last.op = "connect" /\ last.h # 0) => strong_count(last.h) = 1

\* A stream with as many owners as there are handles, shut down.
C8_Witness ==
    \E h \in Live : strong_count(h) = MaxHandles /\ WasShut(h)

\* The variant and the backend connect function that belong to a config.
VariantOf(cfg) ==
    IF cfg = None THEN "Direct"
    ELSE CASE cfg[1].protocol = "Http" -> "HttpProxy"
           [] cfg[1].protocol = "Https" -> "HttpsProxy"
           [] cfg[1].protocol = "Socks5" -> "Socks5"
           [] cfg[1].protocol = "Shadowsocks" -> "Shadowsocks"

BackendOf(cfg) ==
    IF cfg = None THEN "TcpStream::connect"
    ELSE CASE cfg[1].protocol = "Http" -> "HttpProxyTcpStream::connect"
           [] cfg[1].protocol = "Https" -> "HttpsProxyTcpStream::connect"
           [] cfg[1].protocol = "Socks5" -> "Socks5TcpStream::connect"
           [] cfg[1].protocol = "Shadowsocks" -> "SSTcpStream::connect"

BackendCalls(calls) ==
    {i \in DOMAIN calls : calls[i].fn # "DnsClient::lookup_address"}

\* C9: a stream that connect returned has the variant of the protocol it was
\* asked for, and connect called the connect function of that backend and of
\* no other.
C9_VariantMatchesProtocol ==
    /\ \A h \in Live : streams[h].inner = VariantOf(origin[logical[h]].config)
    /\ last.op = "connect"
          => \A i \in BackendCalls(last.calls) :
                 last.calls[i].fn = BackendOf(last.args.config)
    /\ (last.op = "connect" /\ last.res.tag = "Ok")
          => Cardinality(BackendCalls(last.calls)) = 1

\* connect has just returned a stream for an Https config.
C9_Witness ==
    /\ last.op = "connect"
    /\ last.res.tag = "Ok"
    /\ last.args.config = Some(HttpsCfg)
    /\ streams[last.h].inner = "HttpsProxy"

\* C10: has_config(c) is true exactly when c equals, by value, the config
\* the stream was connected with; has_config(None) exactly for Direct
\* streams; before and after shutdown alike.
C10_HasConfigByValue ==
    \A h \in Live :
        /\ \A c \in AllConfigOpts :
              has_config(h, c) = (origin[logical[h]].config = c)
        /\ has_config(h, None) = (streams[h].inner = "Direct")

\* A stream connected with the plain Http config, shut down: it has that
\* config and not the one that differs in the credentials only.
C10_Witness ==
    \E h \in Live :
        /\ WasShut(h)
        /\ has_config(h, Some(HttpCfg))
        /\ ~has_config(h, Some(HttpCfgAuth))
        /\ ~has_config(h, None)

LookupCalls(calls) ==
    {i \in DOMAIN calls : calls[i].fn = "DnsClient::lookup_address"}

\* The calls of every connect, suspended or just returned, and the error a
\* failed one hands back.
AtMostOnceEach ==
    /\ \A h \in Connecting :
           /\ Cardinality(LookupCalls(connecting[h].calls)) <= 1
           /\ Cardinality(BackendCalls(connecting[h].calls)) <= 1
    /\ last.op = "connect"
        => /\ Cardinality(LookupCalls(last.calls)) <= 1
           /\ Cardinality(BackendCalls(last.calls)) <= 1
           /\ (LookupCalls(last.calls) # {} /\ ~last.env.dns.ok)
                 => /\ last.res = Err(last.env.dns.err)
                    /\ BackendCalls(last.calls) = {}
           /\ (BackendCalls(last.calls) # {} /\ ~last.env.backend.ok)
                 => last.res = Err(last.env.backend.err)

\* The step in which a connect returns an error hands back no handle and
\* leaves the streams that exist, and their flags, as they were.
FailedConnectAddsNoStream ==
    (last'.op = "connect" /\ last'.res.tag = "Err")
        => (last'.h = 0 /\ streams' = streams /\ alive' = alive /\ strong' = strong)

\* C11: connect calls lookup_address at most once and the backend connect at
\* most once; when the lookup fails connect returns that same error and makes
\* no backend call; when the backend connect fails connect returns that same
\* error; in both cases no stream is returned.
C11_NoRetryNoRewrite == []AtMostOnceEach /\ [][FailedConnectAddsNoStream]_vars

\* connect has just failed in the backend connect, after a lookup that
\* succeeded and next to a live stream: one call of each, the backend's error
\* handed back.
C11_Witness ==
    /\ last.op = "connect"
    /\ last.env.dns.ok
    /\ last.env.backend = BackendErr("ConnectionRefused")
    /\ Len(last.calls) = 2
    /\ last.res = Err("ConnectionRefused")
    /\ last.h = 0
    /\ Live # {}

\* C12: when a relay task ends with an error, nothing but that task changes:
\* the accept loop is where it was and still takes the next socket, every
\* other task is as it was, and the pump is still running.
C12_RelayErrorsIsolated ==
    /\ [][\A t \in Tasks :
             (tasks[t].pc # "failed" /\ tasks'[t].pc = "failed")
                 => /\ loop' = loop
                    /\ pump' = pump
                    /\ Len(tasks') = Len(tasks)
                    /\ \A u \in Tasks \ {t} : tasks'[u] = tasks[u]]_vars
    /\ []((\E t \in Tasks : tasks[t].pc = "failed")
            => /\ ENABLED PumpPoll
               /\ (loop = "listening" /\ Len(tasks) < MaxSockets) => ENABLED AcceptAny)

\* One task has failed; the accept loop is listening, the pump runs, and
\* another task has run to its end.
C12_Witness ==
    /\ loop = "listening"
    /\ pump.state = "running"
    /\ \E t, u \in Tasks : tasks[t].pc = "failed" /\ tasks[u].pc = "done"

\* C13: every accepted TCP socket has its own relay task, and once that task
\* runs it copies between the halves of the socket and an established
\* ProxyStream: what it reads from the socket's read half goes to a
\* ProxyStream, not back to the socket.
C13_TcpRelayThroughProxyStream ==
    \A t \in Tasks :
        (tasks[t].kind = "Tcp" /\ tasks[t].pc # "spawned")
            => /\ Live # {}
               /\ tasks[t].from = "socket.reader"
               /\ tasks[t].to = "ProxyStream"

CallsOf(t, fn) == {i \in DOMAIN tasks[t].calls : tasks[t].calls[i].fn = fn}

\* C14: a UDP relay task receives at most once and sends at most once; what
\* it sends goes to the address the datagram came from, and is sent only
\* after the payload was forwarded to the destination and a response came
\* back; when the receive fails nothing is sent.
C14_UdpOneRoundTrip ==
    \A t \in Tasks :
        tasks[t].kind = "Udp"
            => /\ Cardinality(CallsOf(t, "recv_dgram")) <= 1
               /\ Cardinality(CallsOf(t, "send_dgram")) <= 1
               /\ \A i \in CallsOf(t, "recv_dgram") :
                      ~tasks[t].calls[i].ok => CallsOf(t, "send_dgram") = {}
               /\ \A i \in CallsOf(t, "send_dgram") :
                      /\ tasks[t].calls[i].addr = tasks[t].calls[1].addr
                      /\ CallsOf(t, "forward") # {}
                      /\ CallsOf(t, "response") # {}

OnePumpRunning ==
    /\ pump.spawned <= 1
    /\ (loop # "init") => (pump = [spawned |-> 1, state |-> "running"])
    /\ (tasks # <<>>) => (pump.spawned = 1)
    /\ (pump.state = "running") => ENABLED PumpPoll

\* C15: the pump is spawned exactly once, before the first socket is
\* accepted, and from then on it is running: no step of the accept loop and
\* no step, completion or failure of a relay task stops it or spawns another.
C15_OnePumpForLife ==
    /\ []OnePumpRunning
    /\ [][loop # "init" => pump' = pump]_vars

\* The accept loop is over and every socket it took has had its task, some
\* ended well and some failed; the one pump is running.
C15_Witness ==
    /\ loop = "ended"
    /\ Len(tasks) = MaxSockets
    /\ \E t \in Tasks : tasks[t].pc = "done"
    /\ \E t \in Tasks : tasks[t].pc = "failed"
    /\ pump = [spawned |-> 1, state |-> "running"]

\* C16: the stream that connect has just returned is alive, has both traffic
\* counters at zero, has a strong count of one, gives back as remote_addr()
\* the destination passed to connect (not what it resolved to) and as
\* config() the config passed to connect.
C16_FreshStream ==
    (last.op = "connect" /\ last.res.tag = "Ok")
        => /\ last.h \in Live
           /\ IsAlive(last.h)
           /\ traffic(last.h) = [sent |-> 0, received |-> 0]
           /\ strong_count(last.h) = 1
           /\ remote_addr(last.h) = Some(last.args.remote)
           /\ config(last.h) = last.args.config

\* connect has just returned a stream for a hostname reached through a
\* backend, next to a stream of another connection that has been shut down
\* and has counted traffic: the new stream keeps the hostname, not a socket
\* address, and has a flag and counters of its own.
C16_Witness ==
    /\ last.op = "connect"
    /\ last.res.tag = "Ok"
    /\ last.args = [remote |-> DestDomain, config |-> Some(SsCfg)]
    /\ last.env.dns.ok
    /\ remote_addr(last.h) = Some(DestDomain)
    /\ remote_addr(last.h) # Some(last.env.dns.sock)
    /\ strong_count(last.h) = 1
    /\ \E h \in Live \ {last.h} :
           /\ WasShut(h)
           /\ ~IsAlive(h)
           /\ traffic(h).sent + traffic(h).received > 0

\* C17: what connect hands to lookup_address depends on the presence of a
\* config only.  Without one it is remote_addr, and the raw transport is
\* connected to the socket address that came back.  With one it is the
\* config's addr(), remote_addr itself is never resolved, and the backend
\* connect gets remote_addr as it was passed, with the backend's resolved
\* socket address.
C17_LookupAddressByConfig ==
    last.op = "connect"
        => /\ LookupCalls(last.calls) = {1}
           /\ last.calls[1].addr = IF last.args.config = None
                                   THEN last.args.remote
                                   ELSE last.args.config[1].addr
           /\ last.args.config # None => last.calls[1].addr # last.args.remote
           /\ \A i \in BackendCalls(last.calls) :
                  /\ last.calls[i].sock = last.env.dns.sock
                  /\ IF last.args.config = None
                     THEN last.calls[i].fn = "TcpStream::connect"
                     ELSE last.calls[i].addr = last.args.remote

\* connect has just gone through the Shadowsocks backend for a hostname: the
\* backend's address was resolved, the hostname was handed on as it was.
C17_Witness ==
    /\ last.op = "connect"
    /\ last.args = [remote |-> DestDomain, config |-> Some(SsCfg)]
    /\ last.env.dns.ok
    /\ Len(last.calls) = 2
    /\ last.calls[1].addr = SsCfg.addr
    /\ last.calls[2].addr = DestDomain
    /\ last.calls[2].sock = last.env.dns.sock

\* A connect with an invalid config, suspended or just returned, has made no
\* backend call; once returned it has failed.
InvalidNeverReachesBackend ==
    /\ \A h \in Connecting :
           InvalidConfig(connecting[h].config)
               => (connecting[h].pc = "lookup" /\ BackendCalls(connecting[h].calls) = {})
    /\ (last.op = "connect" /\ InvalidConfig(last.args.config))
           => /\ BackendCalls(last.calls) = {}
              /\ last.res.tag = "Err"
              /\ last.h = 0

\* The step in which a connect with an invalid config returns adds no stream.
InvalidConnectAddsNoStream ==
    (last'.op = "connect" /\ InvalidConfig(last'.args.config))
        => (streams' = streams /\ alive' = alive)

\* C18: connect with an Https config without hostname, or a Shadowsocks
\* config without method or key, never calls the backend connect and returns
\* no stream, whether the lookup succeeds or fails.
C18_InvalidConfigNoHandshake ==
    []InvalidNeverReachesBackend /\ [][InvalidConnectAddsNoStream]_vars

\* connect has just been refused for a Shadowsocks config without key, after
\* a lookup that succeeded.
C18_Witness ==
    /\ last.op = "connect"
    /\ last.args.config = Some(SsNoKey)
    /\ last.env.dns.ok
    /\ last.res = Err("InvalidData")
    /\ BackendCalls(last.calls) = {}

\* Every I/O call on the stream would be forwarded to the transport.
Forwarded(h) ==
    /\ \A out \in ReadWriteOutcomes :
           poll_read(h, out).polls = 1 /\ poll_write(h, out).polls = 1
    /\ \A out \in UnitOutcomes :
           poll_flush(h, out).polls = 1 /\ poll_close(h, out).polls = 1

NeverShutForwarded == \A h \in Live : ~WasShut(h) => (IsAlive(h) /\ Forwarded(h))

\* C19: the liveness flag of a connection changes only in a step that is a
\* shutdown() made through one of its owners, so in no poll, whatever the
\* transport answers (Pending, bytes, end of stream, an error, a close that
\* succeeds); and a stream that was never shut down has every I/O call
\* forwarded to the transport, also after a close or an error.
C19_OnlyShutdownClearsFlag ==
    /\ [][\A c \in Conn :
             (strong[c] > 0 /\ strong'[c] > 0 /\ alive'[c] # alive[c])
                 => \E h \in Owners(c) : Shutdown(h)]_vars
    /\ []NeverShutForwarded

\* A stream whose transport has answered a poll with an error, or was closed,
\* and that was never shut down: it is alive and a read is forwarded.
C19_Witness ==
    \E h \in Live :
        /\ ended[logical[h]]
        /\ ~WasShut(h)
        /\ IsAlive(h)
        /\ poll_read(h, Ok(MaxBytes)).polls = 1

\* The call polled the transport exactly once and returned what it answered.
Faithful(run, out) == run.polls = 1 /\ run.res = out

\* C20: on an alive stream, of any variant, each I/O call polls the transport
\* exactly once and returns the transport's answer as it is: Pending as
\* Pending, an error as that error, a success with the same byte count.
C20_FaithfulForwarding ==
    \A h \in Live :
        IsAlive(h)
            => /\ \A out \in ReadWriteOutcomes :
                      /\ Faithful(poll_read(h, out), out)
                      /\ Faithful(poll_write(h, out), out)
               /\ \A out \in UnitOutcomes :
                      /\ Faithful(poll_flush(h, out), out)
                      /\ Faithful(poll_close(h, out), out)

\* An alive Socks5 stream through which a write was made and counted: a
\* flush that the transport fails comes back with the transport's error.
C20_Witness ==
    \E h \in Live :
        /\ IsAlive(h)
        /\ streams[h].inner = "Socks5"
        /\ traffic(h).sent = MaxBytes
        /\ poll_flush(h, Err("ConnectionReset")).res = Err("ConnectionReset")
====
